---- MODULE Spec2Model ----
(***************************************************************************)
(* A model of docsync_agent: scanner.py (scan_python_file,                 *)
(* insert_missing_docstrings, generate_api_reference, update_readme) and   *)
(* cli.py (main).                                                          *)
(*                                                                         *)
(* Source text.  A Python source file is a sequence of physical lines.     *)
(* Each line is a record [kind, col, name, args, body, text, stubs, eol]:  *)
(*   kind "def"     : <col spaces>def NAME(ARGS):                          *)
(*   kind "def1"    : <col spaces>def NAME(ARGS): BODY   BODY pass|return  *)
(*   kind "defopen" : <col spaces>def NAME(a=[           header continues  *)
(*   kind "close"   : <col spaces>]):                    header ends       *)
(*   kind "doc"     : <col spaces>TEXT in triple double quotes             *)
(*   kind "pass"    : <col spaces>pass                                     *)
(*   kind "class"   : <col spaces>class C:                                 *)
(*   kind "if"      : <col spaces>if x:                                    *)
(*   kind "bad"     : def (                                                *)
(*   kind "nul"     : a line that holds a NUL byte                         *)
(*   kind "undecodable" : a line that holds bytes that are not UTF-8       *)
(* stubs (a sequence of "doc" lines) is the string literals that follow    *)
(* the line's own text on the same physical line: a one-line body written  *)
(* in the source, or the stubs written after a line that was not           *)
(* newline-terminated.                                                     *)
(* eol is the line terminator as it is in the file: "\n", "\r\n", "\r", or  *)
(* "" for a last line without one.  Files are opened in text mode with     *)
(* universal newlines: what is read has "\n" for every terminator, and     *)
(* what is written has "\n" (the platform is POSIX).                       *)
(*                                                                         *)
(* Document text.  README.md, docstrings and rendered lines are sequences  *)
(* of tokens (strings); start_marker, end_marker and NL are the two marker *)
(* texts and the newline; CR is the carriage return, and every other      *)
(* white space character is a token of its own (WhiteSpace); every other   *)
(* token is text that holds no part of a marker and no white space at its  *)
(* ends.  A path is the sequence of its characters.                        *)
(***************************************************************************)
EXTENDS Integers, Sequences, FiniteSets, TLC

VARIABLES
    pc,            \* position in the run
    nulError,      \* the exception this interpreter's ast.parse raises for a NUL byte
    noDocstrings,  \* args.no_docstrings
    noReadme,      \* args.no_readme
    files,         \* main: files, the discovered paths in discovery order
    disk,          \* path -> the file's lines
    readme,        \* <<>> when README.md is absent, else <<contents>>
    functions,     \* main: functions, the records of the last scan
    inserted,      \* main: inserted
    idx,           \* position of the scanning loop in files
    api_lines,     \* update_readme: api_lines, the lines last rendered
    passes,        \* history: completed scanning loops
    dirty,         \* history: a source file was written since the last scanning loop
    hist           \* history: what each mutating operation started from

vars == <<pc, nulError, noDocstrings, noReadme, files, disk, readme, functions,
          inserted, idx, api_lines, passes, dirty, hist>>

-----------------------------------------------------------------------------
(* Generic helpers *)

Range(s) == {s[i] : i \in 1..Len(s)}

RECURSIVE Flatten(_)
Flatten(ss) == IF ss = <<>> THEN <<>> ELSE Head(ss) \o Flatten(Tail(ss))

SeqsUpTo(S, n) == UNION {[1..k -> S] : k \in 0..n}

Some(x) == <<x>>
None == <<>>

-----------------------------------------------------------------------------
(* Source lines *)

NL == "\n"
CR == "\r"
CRLF == "\r\n"

Line(kind, col, name, args, body, text) ==
    [kind |-> kind, col |-> col, name |-> name, args |-> args, body |-> body,
     text |-> text, stubs |-> <<>>, eol |-> NL]

\* f.readlines() in text mode: every terminator read is "\n"
ReadLines(ls) == [i \in 1..Len(ls) |-> [ls[i] EXCEPT !.eol = IF @ = "" THEN "" ELSE NL]]

Indent == 4

\* The backquote character, as a token of its own.
Backquote == "BACKQUOTE"

\* One space, as a token of its own.
Space == " "

\* The other white space characters of str, each a token of its own; a
\* character that TLA+ has no escape for is written as its code point.
Tab == "\t"
FF == "\f"
VT == "U+000B"
FS == "U+001C"
GS == "U+001D"
RS == "U+001E"
US == "U+001F"
NEL == "U+0085"
NBSP == "U+00A0"
LS == "U+2028"
PS == "U+2029"
\* Any one of U+1680, U+2000 to U+200A, U+202F, U+205F, U+3000.
USpace == "U+2000"

\* The line boundaries of str.splitlines: "\n", "\r" ("\r\n" is one boundary),
\* "\v", "\f", "\x1c", "\x1d", "\x1e", "\x85", "\u2028", "\u2029".
LineBreaks == {NL, CR, VT, FF, FS, GS, RS, NEL, LS, PS}

\* The characters str.strip() removes (str.isspace); no other token starts
\* or ends in one of them.
WhiteSpace == LineBreaks \cup {Space, Tab, US, NBSP, USpace}

StubText(name) == <<"TODO: Document", Space, Backquote, name, Backquote, ".">>

\* stub: indent (col_offset + 4 spaces), the TODO text in triple quotes, a newline
StubLine(func_info) ==
    Line("doc", func_info.col_offset + Indent, "", <<>>, "", StubText(func_info.name))

-----------------------------------------------------------------------------
(* ast.parse on the modelled lines: statements, blocks by indentation,      *)
(* bracketed header continuation.                                          *)

Node(kind, name, args, lineno, col, text, body) ==
    [kind |-> kind, name |-> name, args |-> args, lineno |-> lineno,
     col_offset |-> col, text |-> text, body |-> body]

SyntaxError == [ok |-> FALSE, next |-> 0, body |-> <<>>]

\* The string literals that follow a line's own text on the same physical
\* line are adjacent literals: one string, their values concatenated.
StubsText(l) == Flatten([i \in 1..Len(l.stubs) |-> l.stubs[i].text])

\* A physical line that carries string literals after its own text: they are
\* the one-line body after the colon of "def", "class", "if" and "]):", the
\* value of "return", more of a string literal, or elements after an open
\* bracket; after "pass" they are a syntax error.
LineOk(l) ==
    \/ l.stubs = <<>>
    \/ l.kind \in {"def", "class", "if", "close", "doc", "defopen"}
    \/ l.kind = "def1" /\ l.body = "return"

RECURSIVE SkipStrings(_, _)
\* Inside the brackets of "def NAME(a=[" string literals at any indentation
\* are list elements.
SkipStrings(ls, j) ==
    IF j <= Len(ls) /\ ls[j].kind = "doc"
    THEN SkipStrings(ls, j + 1) ELSE j

RECURSIVE ParseBlock(_, _, _)
RECURSIVE ParseStmt(_, _)

\* The statements at indentation col from line i on, up to a dedent or EOF.
ParseBlock(ls, i, col) ==
    IF i > Len(ls) THEN [ok |-> TRUE, next |-> i, body |-> <<>>]
    ELSE IF ls[i].col < col THEN [ok |-> TRUE, next |-> i, body |-> <<>>]
    ELSE IF ls[i].col > col THEN SyntaxError
    ELSE LET st == ParseStmt(ls, i) IN
         IF ~st.ok THEN SyntaxError
         ELSE LET rest == ParseBlock(ls, st.next, col) IN
              IF ~rest.ok THEN SyntaxError
              ELSE [ok |-> TRUE, next |-> rest.next, body |-> st.body \o rest.body]

\* The indented block a compound statement's header (ending at line h) needs.
Suite(ls, h, col) ==
    IF h + 1 <= Len(ls) /\ ls[h + 1].col > col
    THEN ParseBlock(ls, h + 1, ls[h + 1].col)
    ELSE SyntaxError

ParseStmt(ls, i) ==
    LET l == ls[i]
        \* header: string literals, the body on the header's last line h
        OneLine(kind, h) ==
            [ok |-> TRUE, next |-> h + 1,
             body |-> <<Node(kind, l.name, l.args, i, l.col, <<>>,
                             <<Node("doc", "", <<>>, h, l.col, StubsText(ls[h]), <<>>)>>)>>]
    IN
    IF ~LineOk(l) THEN SyntaxError
    ELSE IF l.kind \in {"doc", "pass"}
    THEN [ok |-> TRUE, next |-> i + 1,
          body |-> <<Node(l.kind, "", <<>>, i, l.col, l.text \o StubsText(l), <<>>)>>]
    ELSE IF l.kind = "def1"
    THEN [ok |-> TRUE, next |-> i + 1,
          body |-> <<Node("def", l.name, l.args, i, l.col, <<>>,
                          <<Node(l.body, "", <<>>, i, l.col, <<>>, <<>>)>>)>>]
    ELSE IF l.kind \in {"def", "class", "if"}
    THEN IF l.stubs # <<>> THEN OneLine(l.kind, i) ELSE
         LET b == Suite(ls, i, l.col) IN
         IF ~b.ok THEN SyntaxError
         ELSE [ok |-> TRUE, next |-> b.next,
               body |-> <<Node(l.kind, l.name, l.args, i, l.col, <<>>, b.body)>>]
    ELSE IF l.kind = "defopen"
    THEN LET j == SkipStrings(ls, i + 1) IN
         IF j > Len(ls) \/ ls[j].kind # "close" THEN SyntaxError
         ELSE IF ls[j].stubs # <<>> THEN OneLine("def", j)
         ELSE LET b == Suite(ls, j, l.col) IN
              IF ~b.ok THEN SyntaxError
              ELSE [ok |-> TRUE, next |-> b.next,
                    body |-> <<Node("def", l.name, l.args, i, l.col, <<>>, b.body)>>]
    ELSE SyntaxError

\* ast.parse(source): the module node, or SyntaxError.
Parse(ls) == ParseBlock(ls, 1, 0)

\* ast.get_docstring(node, clean=False)
get_docstring(node) ==
    IF node.body # <<>> /\ node.body[1].kind = "doc"
    THEN Some(node.body[1].text) ELSE None

-----------------------------------------------------------------------------
(* scanner.py: the Source Indexer *)

FunctionInfo(name, args, docstring, lineno, col_offset, file_path) ==
    [name |-> name, args |-> args, docstring |-> docstring, lineno |-> lineno,
     col_offset |-> col_offset, file_path |-> file_path]

\* arg_names: every positional parameter whose name is not "self"
ArgNames(args) == SelectSeq(args, LAMBDA a : a # "self")

\* The node kinds whose children are visited.
Recursed(child) == child.kind \in {"class", "def"}

RECURSIVE gather_functions(_, _)
RECURSIVE GatherChildren(_, _)

\* The loop over ast.iter_child_nodes(node)
GatherChildren(children, file_path) ==
    IF children = <<>> THEN <<>>
    ELSE LET child == Head(children) IN
         (IF child.kind = "def"
          THEN <<FunctionInfo(child.name, ArgNames(child.args), get_docstring(child),
                              child.lineno, child.col_offset, file_path)>>
          ELSE <<>>)
         \o (IF Recursed(child) THEN gather_functions(child, file_path) ELSE <<>>)
         \o GatherChildren(Tail(children), file_path)

gather_functions(node, file_path) == GatherChildren(node.body, file_path)

\* open(file_path, "r", encoding="utf-8") and read: bytes that are not UTF-8
\* raise UnicodeDecodeError.
Decodes(source) == \A i \in 1..Len(source) : source[i].kind # "undecodable"

\* ast.parse refuses a source string that holds a NUL byte, wherever it is,
\* before it parses anything.
HasNul(source) == \E i \in 1..Len(source) : source[i].kind = "nul"

\* What ast.parse raises for a NUL byte: ValueError (CPython 3.11.2) or
\* SyntaxError (CPython 3.11.6), by the interpreter that runs the program.
NulErrors == {"ValueError", "SyntaxError"}

\* scan_python_file: raised is TRUE when an exception leaves the function.
\* The read is outside the try, and the try catches SyntaxError only.
scan_python_file(source, file_path, nul_error) ==
    LET tree == Parse(ReadLines(source)) IN
    IF ~Decodes(source) THEN [raised |-> TRUE, value |-> <<>>]
    ELSE IF HasNul(source) THEN [raised |-> nul_error # "SyntaxError", value |-> <<>>]
    ELSE IF ~tree.ok THEN [raised |-> FALSE, value |-> <<>>]
    ELSE [raised |-> FALSE, value |-> gather_functions(tree, file_path)]

-----------------------------------------------------------------------------
(* scanner.py: the Stub Inserter *)

\* list.insert(k, x): past the end it appends
ListInsert(lines, k, x) ==
    IF k >= Len(lines) THEN Append(lines, x)
    ELSE SubSeq(lines, 1, k) \o <<x>> \o SubSeq(lines, k + 1, Len(lines))

RECURSIVE SortedDesc(_)
\* sorted(funcs, key=lineno, reverse=True): stable, equal keys keep their order
SortedDesc(funcs) ==
    IF funcs = <<>> THEN <<>>
    ELSE LET h == Head(funcs)
             t == SortedDesc(Tail(funcs))
             k == Cardinality({i \in 1..Len(t) : t[i].lineno > h.lineno})
         IN SubSeq(t, 1, k) \o <<h>> \o SubSeq(t, k + 1, Len(t))

\* The order in which one file's insertions are applied.
InsertionOrder(funcs) == SortedDesc(funcs)

RECURSIVE InsertStubs(_, _)
\* for func_info in funcs_sorted: lines.insert(func_info.lineno, stub)
InsertStubs(lines, funcs) ==
    IF funcs = <<>> THEN lines
    ELSE InsertStubs(ListInsert(lines, Head(funcs).lineno, StubLine(Head(funcs))),
                     Tail(funcs))

RECURSIVE WriteLines(_)
\* f.writelines(lines), as the physical lines of the file written: a line
\* without its newline runs into the one written after it.
WriteLines(lines) ==
    IF Len(lines) <= 1 THEN lines
    ELSE LET rest == WriteLines(Tail(lines))
             h == Head(lines)
         IN IF h.eol # "" THEN <<h>> \o rest
            ELSE <<[h EXCEPT !.stubs = @ \o <<[Head(rest) EXCEPT !.stubs = <<>>]>>
                                         \o Head(rest).stubs,
                             !.eol = Head(rest).eol]>> \o Tail(rest)

RECURSIVE GroupKeys(_, _)
\* The keys of functions_by_file in insertion order.
GroupKeys(funcs, seen) ==
    IF funcs = <<>> THEN <<>>
    ELSE LET f == Head(funcs) IN
         IF f.docstring = None /\ f.file_path \notin seen
         THEN <<f.file_path>> \o GroupKeys(Tail(funcs), seen \cup {f.file_path})
         ELSE GroupKeys(Tail(funcs), seen)

\* functions_by_file[file_path]
Eligible(funcs, file_path) ==
    SelectSeq(funcs, LAMBDA f : f.docstring = None /\ f.file_path = file_path)

RECURSIVE InsertFiles(_, _, _)
\* The loop over functions_by_file.items(): read, insert bottom-up, write back.
\* raised is TRUE when a file's read raises UnicodeDecodeError: the files
\* before it are written, it and those after it are not.
InsertFiles(d, funcs, keys) ==
    IF keys = <<>> THEN [raised |-> FALSE, count |-> 0, disk |-> d]
    ELSE LET p == Head(keys)
             mine == Eligible(funcs, p)
             lines == InsertStubs(ReadLines(d[p]), InsertionOrder(mine))
             r == InsertFiles([d EXCEPT ![p] = WriteLines(lines)], funcs, Tail(keys))
         IN IF ~Decodes(d[p]) THEN [raised |-> TRUE, count |-> 0, disk |-> d]
            ELSE [raised |-> r.raised, count |-> Len(mine) + r.count, disk |-> r.disk]

insert_missing_docstrings(d, funcs) == InsertFiles(d, funcs, GroupKeys(funcs, {}))

-----------------------------------------------------------------------------
(* os.path.relpath on character sequences *)

Sep == "/"

\* The working directory of the run: /p
Cwd == <<"/", "p">>

\* Code points of the characters that paths are written with.
Code == [c \in {".", "-", "/", "a", "b", "p", "q"} |->
            CASE c = "-" -> 45 [] c = "." -> 46 [] c = "/" -> 47 [] c = "a" -> 97
              [] c = "b" -> 98 [] c = "p" -> 112 [] c = "q" -> 113]

RECURSIVE StrLess(_, _)
\* str.__lt__: lexicographic by code point
StrLess(a, b) ==
    IF b = <<>> THEN FALSE
    ELSE IF a = <<>> THEN TRUE
    ELSE IF Code[Head(a)] # Code[Head(b)] THEN Code[Head(a)] < Code[Head(b)]
    ELSE StrLess(Tail(a), Tail(b))

RECURSIVE SplitSep(_, _)
\* path.split(sep), cur being the component read so far
SplitSep(path, cur) ==
    IF path = <<>> THEN <<cur>>
    ELSE IF Head(path) = Sep THEN <<cur>> \o SplitSep(Tail(path), <<>>)
    ELSE SplitSep(Tail(path), Append(cur, Head(path)))

RECURSIVE NormComps(_, _)
\* normpath: empty and "." components go, ".." removes the one before it
NormComps(comps, acc) ==
    IF comps = <<>> THEN acc
    ELSE LET c == Head(comps) IN
         IF c = <<>> \/ c = <<".">> THEN NormComps(Tail(comps), acc)
         ELSE IF c = <<".", ".">>
         THEN NormComps(Tail(comps), IF acc = <<>> THEN acc ELSE SubSeq(acc, 1, Len(acc) - 1))
         ELSE NormComps(Tail(comps), Append(acc, c))

\* [x for x in abspath(path).split(sep) if x]
AbsComps(path) ==
    NormComps(SplitSep(IF path # <<>> /\ Head(path) = Sep THEN path
                       ELSE Cwd \o <<Sep>> \o path, <<>>), <<>>)

RECURSIVE CommonLen(_, _)
CommonLen(a, b) ==
    IF a = <<>> \/ b = <<>> \/ Head(a) # Head(b) THEN 0
    ELSE 1 + CommonLen(Tail(a), Tail(b))

RECURSIVE JoinSep(_)
JoinSep(comps) ==
    IF comps = <<>> THEN <<>>
    ELSE IF Len(comps) = 1 THEN Head(comps)
    ELSE Head(comps) \o <<Sep>> \o JoinSep(Tail(comps))

\* os.path.relpath(path), relative to the working directory; raised is TRUE
\* for the ValueError of an empty path ("if not path: raise ValueError").
relpath(path) ==
    LET start_list == AbsComps(Cwd)
        path_list == AbsComps(path)
        i == CommonLen(start_list, path_list)
        rel_list == [k \in 1..(Len(start_list) - i) |-> <<".", ".">>]
                    \o SubSeq(path_list, i + 1, Len(path_list))
    IN IF path = <<>> THEN [raised |-> TRUE, value |-> <<>>]
       ELSE [raised |-> FALSE,
             value |-> IF rel_list = <<>> THEN <<".">> ELSE JoinSep(rel_list)]

-----------------------------------------------------------------------------
(* scanner.py: the Reference Synchronizer *)

start_marker == "<!-- DOCS START -->"
end_marker == "<!-- DOCS END -->"
DefaultHeader == <<"# Project Documentation", NL, NL>>
Placeholder == <<"TODO: Write documentation">>

RECURSIVE JoinWith(_, _)
\* sep.join(parts), parts being token sequences
JoinWith(sep, parts) ==
    IF parts = <<>> THEN <<>>
    ELSE IF Len(parts) = 1 THEN Head(parts)
    ELSE Head(parts) \o sep \o JoinWith(sep, Tail(parts))

\* FunctionInfo.signature
signature(func) ==
    <<func.name, "(">> \o JoinWith(<<",", Space>>, [i \in 1..Len(func.args) |-> <<func.args[i]>>])
    \o <<")">>

\* signature.replace: a backslash goes before every backquote
Escape(text) ==
    Flatten([i \in 1..Len(text) |->
                IF text[i] = Backquote THEN <<"\\", Backquote>> ELSE <<text[i]>>])

\* text.splitlines()[0] of a non-empty text: the text up to its first line boundary
FirstLine(text) ==
    LET nls == {i \in 1..Len(text) : text[i] \in LineBreaks} IN
    IF nls = {} THEN text
    ELSE SubSeq(text, 1, (CHOOSE i \in nls : \A j \in nls : i <= j) - 1)

RECURSIVE Strip(_)
\* str.strip: leading and trailing white space goes
Strip(text) ==
    IF text = <<>> THEN text
    ELSE IF Head(text) \in WhiteSpace THEN Strip(Tail(text))
    ELSE IF text[Len(text)] \in WhiteSpace THEN Strip(SubSeq(text, 1, Len(text) - 1))
    ELSE text

\* (func.docstring or placeholder).splitlines()[0].strip()
DocLine(func) ==
    Strip(FirstLine(IF func.docstring = None \/ func.docstring[1] = <<>>
                    THEN Placeholder ELSE func.docstring[1]))

RECURSIVE GroupedKeys(_, _)
\* The keys of grouped in insertion order.
GroupedKeys(funcs, seen) ==
    IF funcs = <<>> THEN <<>>
    ELSE LET rel == relpath(Head(funcs).file_path).value IN
         IF rel \in seen THEN GroupedKeys(Tail(funcs), seen)
         ELSE <<rel>> \o GroupedKeys(Tail(funcs), seen \cup {rel})

RECURSIVE SortedStrs(_)
\* sorted(keys)
SortedStrs(keys) ==
    IF keys = <<>> THEN <<>>
    ELSE LET h == Head(keys)
             t == SortedStrs(Tail(keys))
             k == Cardinality({i \in 1..Len(t) : StrLess(t[i], h)})
         IN SubSeq(t, 1, k) \o <<h>> \o SubSeq(t, k + 1, Len(t))

\* The groups in the order of discovery
GroupOrderUnsorted(keys) == keys

\* The order in which the groups are emitted.
GroupOrder(keys) == SortedStrs(keys)

\* One group: the heading, a bullet per record, a blank line.
GroupLines(funcs, file_name) ==
    LET mine == SelectSeq(funcs, LAMBDA f : relpath(f.file_path).value = file_name) IN
    <<(<<"### ", Backquote>> \o file_name \o <<Backquote>>)>>
    \o [i \in 1..Len(mine) |->
          <<"- **">> \o Escape(signature(mine[i])) \o <<"**: ">> \o DocLine(mine[i])]
    \o << <<>> >>

\* generate_api_reference: the lines, each a token sequence; raised is TRUE
\* when relpath raises in the grouping loop.
generate_api_reference(funcs) ==
    LET order == GroupOrder(GroupedKeys(funcs, {})) IN
    IF \E i \in 1..Len(funcs) : relpath(funcs[i].file_path).raised
    THEN [raised |-> TRUE, value |-> <<>>]
    ELSE [raised |-> FALSE,
          value |-> Flatten([g \in 1..Len(order) |-> GroupLines(funcs, order[g])])]

Contains(contents, marker) == \E i \in 1..Len(contents) : contents[i] = marker

\* contents.split(marker): the pieces between the occurrences of marker
RECURSIVE SplitOn(_, _, _)
SplitOn(contents, marker, cur) ==
    IF contents = <<>> THEN <<cur>>
    ELSE IF Head(contents) = marker THEN <<cur>> \o SplitOn(Tail(contents), marker, <<>>)
    ELSE SplitOn(Tail(contents), marker, Append(cur, Head(contents)))

\* after = contents.split(end_marker)[1]
AfterPart(contents) == SplitOn(contents, end_marker, <<>>)[2]

\* "\n".join([start_marker] + api_lines + [end_marker])
api_content(funcs) ==
    JoinWith(<<NL>>, << <<start_marker>> >> \o generate_api_reference(funcs).value
                     \o << <<end_marker>> >>)

RECURSIVE ReadText(_)
\* f.read() in text mode: "\r\n" and "\r" are read as "\n"
ReadText(text) ==
    IF text = <<>> THEN <<>>
    ELSE IF Head(text) = CR
    THEN <<NL>> \o ReadText(IF Len(text) > 1 /\ text[2] = NL
                            THEN SubSeq(text, 3, Len(text)) ELSE Tail(text))
    ELSE <<Head(text)>> \o ReadText(Tail(text))

\* update_readme: the contents written, doc being None when README.md is
\* absent; raised is TRUE when generate_api_reference raises, before any write.
update_readme(doc, funcs) ==
    LET contents == IF doc = None THEN DefaultHeader ELSE ReadText(doc[1])
        new_contents ==
            IF Contains(contents, start_marker) /\ Contains(contents, end_marker)
            THEN SplitOn(contents, start_marker, <<>>)[1] \o api_content(funcs)
                 \o AfterPart(contents)
            ELSE (IF contents # <<>> /\ contents[Len(contents)] = NL
                  THEN contents ELSE contents \o <<NL>>)
                 \o api_content(funcs) \o <<NL>>
    IN IF generate_api_reference(funcs).raised
       THEN [raised |-> TRUE, value |-> <<>>]
       ELSE [raised |-> FALSE, value |-> new_contents]

-----------------------------------------------------------------------------
(* Inputs *)

MaxLines == 3
MainLines == 2
MaxRecs == 3
MaxDoc == 4
MaxSyncRecs == 1

PathA == <<"/", "p", "/", "a">>
PathB == <<"/", "p", "/", "b">>

Def(col, args) == Line("def", col, "f", args, "", <<>>)
Def1(col, body) == Line("def1", col, "f", <<>>, body, <<>>)
DefOpen(col) == Line("defopen", col, "f", <<"a">>, "", <<>>)
Close(col) == Line("close", col, "", <<>>, "", <<>>)
Doc(col) == Line("doc", col, "", <<>>, "", <<"d">>)
Pass(col) == Line("pass", col, "", <<>>, "", <<>>)
Block(kind, col) == Line(kind, col, "", <<>>, "", <<>>)
Bad == Line("bad", 0, "", <<>>, "", <<>>)
Nul == Line("nul", 0, "", <<>>, "", <<>>)
Undecodable == Line("undecodable", 0, "", <<>>, "", <<>>)
\* def f(): and its docstring on one line
DefDoc(col) == [Def(col, <<>>) EXCEPT !.stubs = <<Doc(1)>>]

Cols == {0, 4, 8}
ArgLists == {<<>>, <<"self", "a">>, <<"a", "self">>}

TreeAlphabet ==
    {Def(c, a) : c \in Cols, a \in ArgLists}
    \cup {Def1(c, b) : c \in Cols, b \in {"pass", "return"}}
    \cup {DefOpen(c) : c \in Cols} \cup {Close(0)}
    \cup {Doc(c) : c \in Cols} \cup {Pass(c) : c \in Cols}
    \cup {Block(k, c) : k \in {"class", "if"}, c \in Cols} \cup {Bad, DefDoc(0), Nul, Undecodable}

MainAlphabet == {Def(0, <<>>), Def(4, <<>>), Doc(4), Pass(4), Pass(8), Bad}

\* The file as it is, without the newline of its last line, and with "\r\n"
\* for every newline.
EolKinds == {"newline", "unterminated", "crlf"}
WithEol(ls, e) ==
    IF ls = <<>> \/ e = "newline" THEN ls
    ELSE IF e = "unterminated" THEN [ls EXCEPT ![Len(ls)].eol = ""]
    ELSE [i \in 1..Len(ls) |-> [ls[i] EXCEPT !.eol = CRLF]]
OtherFiles == {<<Bad>>, <<Def(0, <<>>), Pass(4)>>, <<Def(0, <<>>), Doc(4)>>,
               <<[Def1(0, "return") EXCEPT !.eol = ""]>>,
               <<[Def(0, <<>>) EXCEPT !.eol = CRLF], [Pass(4) EXCEPT !.eol = CR]>>,
               <<Undecodable>>, <<Def(0, <<>>), Pass(4), Nul>>}

DocTokens == {start_marker, end_marker, NL, CR, "x"}
\* README.md absent, or of at most n tokens.
DocsUpTo(n) == {None} \cup {Some(d) : d \in SeqsUpTo(DocTokens, n)}
MainDocs == {None, Some(<<"x">>),
             Some(<<"x", NL, start_marker, NL, "y", NL, end_marker, NL, "z">>)}

RenderPaths == {PathA, PathB, <<"/", "p", "/", "a", "/", "b">>,
                <<"/", "p", "/", "a", "-", "b">>, <<"/", "q", "/", "a">>,
                <<"/", "p", "/", ".", "/", "b">>}
RenderRecs ==
    {FunctionInfo("f", <<>>, None, 1, 0, p) : p \in RenderPaths}
    \cup {FunctionInfo("g", <<"x", "y">>, Some(d), 2, 0, p) :
            d \in {<<Space, "d", NL, "e">>, <<Tab, "d", CR, "e">>, <<"d", FF, "e">>},
            p \in {PathA, PathB}}
SyncRecs ==
    {FunctionInfo("f", <<>>, None, 1, 0, PathA),
     FunctionInfo("g", <<"x">>, Some(<<"d">>), 1, 0, PathB),
     FunctionInfo("h", <<>>, Some(<<end_marker, Space, "x">>), 1, 0, PathA),
     FunctionInfo("f", <<>>, None, 1, 0, <<>>)}

-----------------------------------------------------------------------------
(* cli.py: main *)

Snapshot == [disk |-> disk, readme |-> readme, scan |-> functions, supplied |-> functions]

\* if inserted > 1
NeedRescanOverOne(n) == n > 1

\* if inserted > 0
NeedRescan(n) == n > 0

InitCommon ==
    /\ nulError \in NulErrors
    /\ inserted = 0 /\ idx = 1 /\ api_lines = <<>>
    /\ passes = 0 /\ dirty = FALSE /\ hist = <<>>

Init ==
    /\ pc = "scan"
    /\ noDocstrings \in BOOLEAN /\ noReadme \in BOOLEAN
    /\ files \in {<<PathA, PathB>>, <<PathB, PathA>>}
    /\ disk \in {[p \in {PathA, PathB} |-> IF p = PathA THEN a ELSE b] :
                   a \in SeqsUpTo(MainAlphabet, MainLines), b \in OtherFiles}
    /\ readme \in MainDocs
    /\ functions = <<>>
    /\ InitCommon

\* One turn of "for file_path in files: functions.extend(scan_python_file(...))"
ScanStep ==
    /\ pc \in {"scan", "rescan"} /\ idx <= Len(files)
    /\ LET r == scan_python_file(disk[files[idx]], files[idx], nulError) IN
       IF r.raised
       THEN pc' = "crashed" /\ UNCHANGED <<functions, idx>>
       ELSE pc' = pc /\ functions' = functions \o r.value /\ idx' = idx + 1
    /\ UNCHANGED <<nulError, noDocstrings, noReadme, files, disk, readme, inserted, api_lines,
                   passes, dirty, hist>>

\* The scanning loop ends.
ScanDone ==
    /\ pc \in {"scan", "rescan"} /\ idx > Len(files)
    /\ pc' = IF pc = "scan" /\ ~noDocstrings THEN "insert" ELSE "readme"
    /\ passes' = passes + 1 /\ dirty' = FALSE
    /\ UNCHANGED <<nulError, noDocstrings, noReadme, files, disk, readme, functions, inserted,
                   idx, api_lines, hist>>

\* inserted = insert_missing_docstrings(functions), and the test for the re-scan
Insert ==
    /\ pc = "insert"
    /\ LET r == insert_missing_docstrings(disk, functions) IN
       /\ disk' = r.disk
       /\ dirty' = (dirty \/ GroupKeys(functions, {}) # <<>>)
       /\ IF r.raised THEN pc' = "crashed" /\ UNCHANGED <<functions, idx, inserted>>
          ELSE IF NeedRescan(r.count)
          THEN pc' = "rescan" /\ functions' = <<>> /\ idx' = 1 /\ inserted' = r.count
          ELSE pc' = "readme" /\ inserted' = r.count /\ UNCHANGED <<functions, idx>>
    /\ hist' = Append(hist, Snapshot)
    /\ UNCHANGED <<nulError, noDocstrings, noReadme, files, readme, api_lines, passes>>

\* if not args.no_readme: update_readme(project_dir, functions)
Readme ==
    /\ pc = "readme"
    /\ LET r == update_readme(readme, functions) IN
       IF noReadme THEN pc' = "done" /\ UNCHANGED <<readme, api_lines, hist>>
       ELSE IF r.raised THEN pc' = "crashed" /\ UNCHANGED <<readme, api_lines, hist>>
       ELSE /\ readme' = Some(r.value)
            /\ api_lines' = generate_api_reference(functions).value
            /\ hist' = Append(hist, Snapshot)
            /\ pc' = "done"
    /\ UNCHANGED <<nulError, noDocstrings, noReadme, files, disk, functions, inserted, idx,
                   passes, dirty>>

Next == ScanStep \/ ScanDone \/ Insert \/ Readme

Spec == Init /\ [][Next]_vars

-----------------------------------------------------------------------------
(* One file: scan, insert, scan, insert *)

\* The record lists a caller can make of a scan: any of its records, in any order.
Supplies(funcs) ==
    {[i \in 1..Len(s) |-> funcs[s[i]]] :
        s \in {t \in SeqsUpTo(1..Len(funcs), Len(funcs)) :
                 \A i, j \in 1..Len(t) : i # j => t[i] # t[j]}}

InitTree ==
    /\ pc = "t_scan1"
    /\ noDocstrings = FALSE /\ noReadme = TRUE
    /\ files = <<PathA>>
    /\ \E ls \in SeqsUpTo(TreeAlphabet, MaxLines), e \in EolKinds :
          disk = [p \in {PathA} |-> WithEol(ls, e)]
    /\ readme = None
    /\ functions = <<>>
    /\ InitCommon

TreeScan ==
    /\ pc \in {"t_scan1", "t_scan2"}
    /\ LET r == scan_python_file(disk[PathA], PathA, nulError) IN
       /\ functions' = r.value
       /\ pc' = IF r.raised THEN "t_raised"
                ELSE IF pc = "t_scan1" THEN "t_insert1" ELSE "t_insert2"
    /\ passes' = passes + 1 /\ dirty' = FALSE
    /\ UNCHANGED <<nulError, noDocstrings, noReadme, files, disk, readme, inserted, idx,
                   api_lines, hist>>

TreeInsert ==
    /\ pc \in {"t_insert1", "t_insert2"}
    /\ \E recs \in Supplies(functions) :
         LET r == insert_missing_docstrings(disk, recs) IN
         /\ disk' = r.disk /\ inserted' = r.count
         /\ dirty' = (dirty \/ GroupKeys(recs, {}) # <<>>)
         /\ hist' = Append(hist, [Snapshot EXCEPT !.supplied = recs])
         /\ pc' = IF r.raised THEN "t_raised"
                  ELSE IF pc = "t_insert1" THEN "t_scan2" ELSE "t_done"
    /\ UNCHANGED <<nulError, noDocstrings, noReadme, files, readme, functions, idx, api_lines,
                   passes>>

NextTree == TreeScan \/ TreeInsert

SpecTree == InitTree /\ [][NextTree]_vars

-----------------------------------------------------------------------------
(* generate_api_reference on a list of records *)

InitRender ==
    /\ pc = "r_start"
    /\ noDocstrings = TRUE /\ noReadme = TRUE
    /\ files = <<>> /\ disk = <<>> /\ readme = None
    /\ functions \in SeqsUpTo(RenderRecs, MaxRecs)
    /\ InitCommon

Render ==
    /\ pc = "r_start"
    /\ LET r == generate_api_reference(functions) IN
       IF r.raised THEN pc' = "r_raised" /\ UNCHANGED api_lines
       ELSE pc' = "r_done" /\ api_lines' = r.value
    /\ UNCHANGED <<nulError, noDocstrings, noReadme, files, disk, readme, functions, inserted,
                   idx, passes, dirty, hist>>

NextRender == Render

SpecRender == InitRender /\ [][NextRender]_vars

-----------------------------------------------------------------------------
(* update_readme, twice with the same records *)

InitSync ==
    /\ pc = "s_1"
    /\ noDocstrings = TRUE /\ noReadme = FALSE
    /\ files = <<>> /\ disk = <<>>
    /\ readme \in DocsUpTo(MaxDoc)
    /\ functions \in SeqsUpTo(SyncRecs, MaxSyncRecs)
    /\ InitCommon

Sync ==
    /\ pc \in {"s_1", "s_2"}
    /\ LET r == update_readme(readme, functions) IN
       IF r.raised THEN pc' = "s_raised" /\ UNCHANGED <<readme, api_lines, hist>>
       ELSE /\ readme' = Some(r.value)
            /\ api_lines' = generate_api_reference(functions).value
            /\ hist' = Append(hist, Snapshot)
            /\ pc' = IF pc = "s_1" THEN "s_2" ELSE "s_done"
    /\ UNCHANGED <<nulError, noDocstrings, noReadme, files, disk, functions, inserted, idx,
                   passes, dirty>>

NextSync == Sync

SpecSync == InitSync /\ [][NextSync]_vars

-----------------------------------------------------------------------------
(* Properties *)

Last(s) == s[Len(s)]

\* The text before the first occurrence of marker.
BeforeFirst(text, marker) ==
    LET i == CHOOSE k \in 1..Len(text) :
                 text[k] = marker /\ \A j \in 1..(k - 1) : text[j] # marker
    IN SubSeq(text, 1, i - 1)

\* The text after the first occurrence of marker.
AfterFirst(text, marker) ==
    LET i == CHOOSE k \in 1..Len(text) :
                 text[k] = marker /\ \A j \in 1..(k - 1) : text[j] # marker
    IN SubSeq(text, i + 1, Len(text))

\* The start marker, the rendered lines and the end marker, a line each;
\* the end marker's line without its newline.
WrappedBlock(lines) ==
    <<start_marker, NL>> \o Flatten([i \in 1..Len(lines) |-> lines[i] \o <<NL>>])
    \o <<end_marker>>

HasBoth(doc) ==
    doc # None /\ Contains(doc[1], start_marker) /\ Contains(doc[1], end_marker)

Prior(doc) == IF doc = None THEN DefaultHeader ELSE doc[1]

\* C1: when the document holds both markers, a sync writes the old text
\* before the first start marker, the wrapped block, and the old text after
\* the first end marker, whatever the number and order of the markers.
C1_MarkerFrame ==
    (pc \in {"s_2", "s_done"} /\ HasBoth(Last(hist).readme)) =>
        LET old == Last(hist).readme[1] IN
        readme[1] = BeforeFirst(old, start_marker) \o WrappedBlock(api_lines)
                    \o AfterFirst(old, end_marker)

\* C7: when the document is absent or lacks a marker, a sync writes the
\* prior content (the default header when absent), a newline if that content
\* did not end in one, then the start marker, the rendered lines and the end
\* marker as lines of their own; the prior content is a prefix, unaltered.
C7_AppendKeepsPrior ==
    (pc \in {"s_2", "s_done"} /\ ~HasBoth(Last(hist).readme)) =>
        LET prior == Prior(Last(hist).readme) IN
        readme[1] = prior
                    \o (IF prior # <<>> /\ Last(prior) = NL THEN <<>> ELSE <<NL>>)
                    \o WrappedBlock(api_lines) \o <<NL>>

\* C10: a second sync with the same records leaves the document as the
\* first sync wrote it.
C10_SyncIdempotent ==
    pc = "s_done" => readme = hist[2].readme

Heading(file_name) == <<"### ", Backquote>> \o file_name \o <<Backquote>>

Bullet(func) == <<"- **">> \o Escape(signature(func)) \o <<"**: ">> \o DocLine(func)

IsHeading(line) == line # <<>> /\ line[1] = "### "

\* The paths of the heading lines, in the order of the rendered lines.
HeadingPaths(lines) ==
    LET hs == SelectSeq(lines, IsHeading) IN
    [i \in 1..Len(hs) |-> SubSeq(hs[i], 3, Len(hs[i]) - 1)]

\* The group a path is due: its heading, the bullets of its records in the
\* order received, a blank line.
GroupDue(funcs, file_name) ==
    LET idxs == {i \in 1..Len(funcs) : relpath(funcs[i].file_path).value = file_name}
        nth(k) == CHOOSE i \in idxs : Cardinality({j \in idxs : j < i}) = k - 1
    IN <<Heading(file_name)>> \o [k \in 1..Cardinality(idxs) |-> Bullet(funcs[nth(k)])]
       \o << <<>> >>

\* The distinct files of a record list, each named by its relative path, in
\* the order of first appearance.
FileOrder(funcs) ==
    LET firsts == {i \in 1..Len(funcs) :
                     \A j \in 1..(i - 1) :
                        relpath(funcs[j].file_path).value # relpath(funcs[i].file_path).value}
        nth(k) == CHOOSE i \in firsts : Cardinality({j \in firsts : j < i}) = k - 1
    IN [k \in 1..Cardinality(firsts) |-> relpath(funcs[nth(k)].file_path).value]

\* The records file by file, the files in the given order.
ByFiles(funcs, order) ==
    Flatten([k \in 1..Len(order) |->
               SelectSeq(funcs, LAMBDA f : relpath(f.file_path).value = order[k])])

Orderings(s) ==
    {[i \in 1..Len(s) |-> s[p[i]]] :
        p \in {q \in [1..Len(s) -> 1..Len(s)] : \A i, j \in 1..Len(s) : i # j => q[i] # q[j]}}

\* C6: the rendered lines hold one group per distinct relative path, the
\* groups in increasing lexicographic order of the path, each group's
\* records in the order received; and a record list that holds its files
\* as whole runs renders the same whatever the order of the files.
C6_GroupsSorted ==
    pc = "r_done" =>
        LET hs == HeadingPaths(api_lines) IN
        /\ Range(hs) = {relpath(f.file_path).value : f \in Range(functions)}
        /\ \A i, j \in 1..Len(hs) : i < j => StrLess(hs[i], hs[j])
        /\ api_lines = Flatten([g \in 1..Len(hs) |-> GroupDue(functions, hs[g])])
        /\ functions = ByFiles(functions, FileOrder(functions)) =>
             \A order \in Orderings(FileOrder(functions)) :
                generate_api_reference(ByFiles(functions, order)).value = api_lines

C6_Witness ==
    /\ pc = "r_done" /\ Len(functions) = 3
    /\ functions[1].file_path = PathB /\ functions[2].file_path = PathB
    /\ functions[3].file_path = <<"/", "p", "/", "a", "-", "b">>
    /\ functions[1].name = "g" /\ functions[2].name = "f"

-----------------------------------------------------------------------------

Parses(source) == Parse(source).ok

\* The records of the files of fs that parse, the others left out.
RecordsWithout(d, fs) ==
    LET good == SelectSeq(fs, LAMBDA p : Parses(d[p])) IN
    Flatten([i \in 1..Len(good) |-> gather_functions(Parse(d[good[i]]), good[i])])

\* C4: a file that does not parse raises nothing, adds no record and leaves
\* the records of the other files as they are without it; stub insertion
\* leaves it as it was.
C4_UnparseableSkipped ==
    /\ pc # "crashed"
    /\ pc \in {"scan", "rescan"} =>
         functions = RecordsWithout(disk, SubSeq(files, 1, idx - 1))
    /\ pc = "insert" => functions = RecordsWithout(disk, files)
    /\ (hist # <<>> /\ ~noDocstrings) =>
         \A p \in DOMAIN disk : ~Parses(hist[1].disk[p]) => disk[p] = hist[1].disk[p]

\* Every file scanned, as the disk now is.
ScanAll(d, fs) ==
    Flatten([i \in 1..Len(fs) |-> scan_python_file(d[fs[i]], fs[i], nulError).value])

\* C5: the records given to update_readme are those of a scan of the files
\* as they are; the scanning loop runs a second time exactly when stub
\* insertion ran and returned more than 0; no source file is written after
\* the last scanning loop.
C5_ScanAfterLastWrite ==
    pc \in {"readme", "done"} =>
        /\ functions = ScanAll(disk, files)
        /\ ~dirty
        /\ passes = (IF ~noDocstrings /\ inserted > 0 THEN 2 ELSE 1)

C5_Witness ==
    /\ pc = "done" /\ passes = 2 /\ ~noReadme
    /\ \E i \in 1..Len(functions) : functions[i].docstring = Some(StubText("f"))

-----------------------------------------------------------------------------

IsDefLine(l) == l.kind \in {"def", "def1", "defopen"}

\* The parameters due: the declared ones, less the first when it is "self".
ParamsDue(args) == IF args # <<>> /\ args[1] = "self" THEN Tail(args) ELSE args

\* C8: a record's parameters are the declared names in order, the first one
\* omitted when and only when it is "self".
C8_ReceiverOnlyFirst ==
    pc = "t_insert1" =>
        \A i \in 1..Len(functions) :
            functions[i].args = ParamsDue(disk[PathA][functions[i].lineno].args)

\* C9: for a file that parses, the records are one per definition, whatever
\* encloses it, in source order (a definition before those nested in it).
C9_EveryDefinition ==
    (pc = "t_insert1" /\ Parses(disk[PathA])) =>
        LET ls == disk[PathA]
            defs == {i \in 1..Len(ls) : IsDefLine(ls[i])}
        IN /\ Len(functions) = Cardinality(defs)
           /\ \A k \in 1..Len(functions) :
                /\ functions[k].lineno \in defs
                /\ Cardinality({j \in defs : j < functions[k].lineno}) = k - 1

\* C2: scan, insert, scan, insert, each insertion given the whole scan: the
\* second insertion returns 0 and writes nothing, and every record without
\* documentation in the first scan has documentation in the second.
C2_InsertIdempotent ==
    (pc = "t_done" /\ hist[1].supplied = hist[1].scan /\ hist[2].supplied = hist[2].scan) =>
        /\ inserted = 0
        /\ disk = hist[2].disk
        /\ Len(hist[2].scan) = Len(hist[1].scan)
        /\ \A i \in 1..Len(hist[1].scan) : hist[2].scan[i].docstring # None

\* C3: after an insertion given any of the scan's records in any order,
\* every old line (as read, its terminator apart) is at its old position
\* plus the number of stubs inserted for headers above it, unchanged, and
\* each record's stub is the line after its header.
C3_StubAfterHeader ==
    pc \in {"t_scan2", "t_done"} =>
        LET h == Last(hist)
            old == ReadLines(h.disk[PathA])
            new == ReadLines(disk[PathA])
            E == {r \in Range(h.supplied) : r.docstring = None}
            K(p) == Cardinality({r \in E : r.lineno < p})
        IN /\ Len(new) = Len(old) + Cardinality(E)
           /\ \A p \in 1..Len(old) : new[p + K(p)] = old[p]
           /\ \A r \in E : new[r.lineno + K(r.lineno) + 1] = StubLine(r)

====
